---- MODULE Spec2Model ----
(***************************************************************************)
(* Model of the governance and metrics core of the AI service:             *)
(*   ModelRegistry (register / promote / archive / list / audit log) and   *)
(*   ModelService  (predict / retrain and the shared metrics),             *)
(* both in ai_service/src/app/inference/predictor.py, with the HTTP        *)
(* handlers of ai_service/src/app/api/endpoints.py that drive them.        *)
(***************************************************************************)
EXTENDS Integers, Sequences, FiniteSets, TLC

VARIABLES
    models,              \* ModelRegistry.models: key -> entry
    key_order,           \* insertion order of the keys of ModelRegistry.models
    audit_log,           \* ModelRegistry.audit_log
    clock,               \* number of datetime.now() readings taken so far
    calls,               \* number of calls made on the registry / the service
    last,                \* the last call: operation, arguments, outcome
    response,            \* the value the last call returned
    ops,                 \* history: the registry operations that succeeded
    prediction_count,    \* ModelService.prediction_count
    model_stats,         \* ModelService.model_stats
    confidence_history,  \* ModelService.confidence_history
    last_retrain,        \* ModelService.last_retrain
    model_version,       \* ModelService.model_version
    requests,            \* HTTP requests in flight on the event loop
    held,                \* the result of a read that an in-process caller keeps
    since_retrain        \* history: predictions returned since the last retrain

svcvars == <<prediction_count, model_stats, confidence_history,
             last_retrain, model_version, since_retrain>>
vars == <<models, key_order, audit_log, clock, calls, last, response, ops,
          prediction_count, model_stats, confidence_history, last_retrain,
          model_version, requests, held, since_retrain>>

(***************************************************************************)
(* Bounds of the model.                                                    *)
(***************************************************************************)
MaxCalls == 2        \* registry calls after startup (full registry)
MaxPromotes == 3     \* promote calls after startup (promote-only runs)
MaxVersion == 2      \* versions 1..MaxVersion are used as arguments
MaxServiceCalls == 4 \* predict / retrain calls made one after the other
NumPredicts == 2     \* concurrent POST /predict requests
NumRetrains == 1     \* concurrent POST /retrain requests
MaxTextLen == 5      \* longest of the short input texts
NumRegistryRequests == 2 \* concurrent calls on the registry
MaxCallerCalls == 3   \* calls of a caller that keeps a result

None == "None"

StrategyNames == <<"modelo_basico", "modelo_avanzado", "modelo_edge">>

Names == {StrategyNames[i] : i \in 1..Len(StrategyNames)}

Versions == 1..MaxVersion

States == {"staging", "active", "archived"}

(***************************************************************************)
(* ModelRegistry                                                           *)
(***************************************************************************)

\* key = f"{name}_v{version}"
Key(name, version) == name \o "_v" \o ToString(version)

\* The registry after register_model(name, version, state); reg is the
\* record of the registry's fields and of the clock.
Registered(reg, name, version, state) ==
    LET key == Key(name, version)
        entry == [name |-> name, version |-> version, state |-> state,
                  registered_at |-> reg.clock]
    IN [models |-> [k \in DOMAIN reg.models \cup {key} |->
                        IF k = key THEN entry ELSE reg.models[k]],
        key_order |-> IF key \in DOMAIN reg.models THEN reg.key_order
                      ELSE Append(reg.key_order, key),
        audit_log |-> Append(reg.audit_log,
                        [event |-> "register", model |-> key, state |-> state,
                         timestamp |-> reg.clock + 1]),
        clock |-> reg.clock + 2]

\* ModelRegistry.__init__: an empty registry, then the three registrations.
InitialState(name) == IF name = "modelo_basico" THEN "active" ELSE "staging"

RECURSIVE RegisterInitial(_, _)
RegisterInitial(reg, i) ==
    IF i > Len(StrategyNames) THEN reg
    ELSE RegisterInitial(
           Registered(reg, StrategyNames[i], 1, InitialState(StrategyNames[i])),
           i + 1)

NewRegistry ==
    RegisterInitial([models |-> <<>>, key_order |-> <<>>, audit_log |-> <<>>,
                     clock |-> 0], 1)

Call(op, name, version, state, outcome) ==
    [op |-> op, name |-> name, version |-> version, state |-> state,
     outcome |-> outcome]

register_model(name, version, state) ==
    LET reg == Registered([models |-> models, key_order |-> key_order,
                           audit_log |-> audit_log, clock |-> clock],
                          name, version, state)
    IN /\ models' = reg.models
       /\ key_order' = reg.key_order
       /\ audit_log' = reg.audit_log
       /\ clock' = reg.clock
       /\ ops' = Append(ops, [kind |-> "register", key |-> Key(name, version)])
       /\ last' = Call("register", name, version, state, "ok")
       /\ response' = None

\* Variant: every other entry of the name is archived, whatever its state.
PromotedArchivingAll(ms, name, version) ==
    [k \in DOMAIN ms |->
        IF k = Key(name, version) THEN [ms[k] EXCEPT !.state = "active"]
        ELSE IF ms[k].name = name /\ ms[k].version # version
             THEN [ms[k] EXCEPT !.state = "archived"]
             ELSE ms[k]]

\* The model map after the body of promote_model's `if key in self.models`.
Promoted(ms, name, version) ==
    [k \in DOMAIN ms |->
        IF k = Key(name, version) THEN [ms[k] EXCEPT !.state = "active"]
        ELSE IF ms[k].name = name /\ ms[k].version # version
                /\ ms[k].state = "active"
             THEN [ms[k] EXCEPT !.state = "archived"]
             ELSE ms[k]]

\* Variant: one more event for every sibling the promotion demotes.
PromoteEventsWithDemotions(ms, name, version) ==
    LET demoted == {k \in DOMAIN ms : /\ ms[k].name = name
                                       /\ ms[k].version # version
                                       /\ ms[k].state = "active"}
        RECURSIVE Events(_)
        Events(S) == IF S = {} THEN <<>>
                     ELSE LET k == CHOOSE x \in S : TRUE
                          IN <<[event |-> "archive", model |-> k,
                                timestamp |-> clock]>> \o Events(S \ {k})
    IN <<[event |-> "promote", model |-> Key(name, version),
          timestamp |-> clock]>> \o Events(demoted)

\* The events promote_model appends.
PromoteEvents(ms, name, version) ==
    <<[event |-> "promote", model |-> Key(name, version), timestamp |-> clock]>>

\* Variant: a missing key is created active, and nothing is demoted.
promote_model_upsert(name, version) ==
    /\ models' = [k \in DOMAIN models \cup {Key(name, version)} |->
                    IF k = Key(name, version)
                    THEN [name |-> name, version |-> version,
                          state |-> "active", registered_at |-> clock]
                    ELSE models[k]]
    /\ key_order' = IF Key(name, version) \in DOMAIN models THEN key_order
                     ELSE Append(key_order, Key(name, version))
    /\ audit_log' = audit_log \o PromoteEvents(models, name, version)
    /\ clock' = clock + 1
    /\ ops' = Append(ops, [kind |-> "promote", key |-> Key(name, version)])
    /\ last' = Call("promote", name, version, None, "ok")
    /\ response' = None

promote_model(name, version) ==
    IF Key(name, version) \in DOMAIN models
    THEN /\ models' = Promoted(models, name, version)
         /\ audit_log' = audit_log \o PromoteEvents(models, name, version)
         /\ clock' = clock + 1
         /\ ops' = Append(ops, [kind |-> "promote", key |-> Key(name, version)])
         /\ last' = Call("promote", name, version, None, "ok")
         /\ response' = None
         /\ UNCHANGED key_order
    ELSE /\ last' = Call("promote", name, version, None, "ValueError")
         /\ response' = None
         /\ UNCHANGED <<models, key_order, audit_log, clock, ops>>

\* Variant: only an active entry is archived.
ArchivedOnlyActive(ms, name, version) ==
    IF ms[Key(name, version)].state = "active"
    THEN [ms EXCEPT ![Key(name, version)].state = "archived"]
    ELSE ms

Archived(ms, name, version) ==
    [ms EXCEPT ![Key(name, version)].state = "archived"]

\* Variant: the event is logged before the key is looked up.
archive_model_logging_first(name, version) ==
    /\ audit_log' = Append(audit_log,
           [event |-> "archive", model |-> Key(name, version),
            timestamp |-> clock])
    /\ clock' = clock + 1
    /\ response' = None
    /\ UNCHANGED key_order
    /\ IF Key(name, version) \in DOMAIN models
       THEN /\ models' = Archived(models, name, version)
            /\ ops' = Append(ops, [kind |-> "archive",
                                   key |-> Key(name, version)])
            /\ last' = Call("archive", name, version, None, "ok")
       ELSE /\ last' = Call("archive", name, version, None, "ValueError")
            /\ UNCHANGED <<models, ops>>

\* Variant: the event is inserted at the head of the log.
archive_model_prepending(name, version) ==
    IF Key(name, version) \in DOMAIN models
    THEN /\ models' = Archived(models, name, version)
         /\ audit_log' = <<[event |-> "archive", model |-> Key(name, version),
                            timestamp |-> clock]>> \o audit_log
         /\ clock' = clock + 1
         /\ ops' = Append(ops, [kind |-> "archive", key |-> Key(name, version)])
         /\ last' = Call("archive", name, version, None, "ok")
         /\ response' = None
         /\ UNCHANGED key_order
    ELSE /\ last' = Call("archive", name, version, None, "ValueError")
         /\ response' = None
         /\ UNCHANGED <<models, key_order, audit_log, clock, ops>>

archive_model(name, version) ==
    IF Key(name, version) \in DOMAIN models
    THEN /\ models' = Archived(models, name, version)
         /\ audit_log' = Append(audit_log,
                [event |-> "archive", model |-> Key(name, version),
                 timestamp |-> clock])
         /\ clock' = clock + 1
         /\ ops' = Append(ops, [kind |-> "archive", key |-> Key(name, version)])
         /\ last' = Call("archive", name, version, None, "ok")
         /\ response' = None
         /\ UNCHANGED key_order
    ELSE /\ last' = Call("archive", name, version, None, "ValueError")
         /\ response' = None
         /\ UNCHANGED <<models, key_order, audit_log, clock, ops>>

\* list(self.models.values())
list_models ==
    /\ response' = [i \in 1..Len(key_order) |-> models[key_order[i]]]
    /\ last' = Call("list_models", None, 0, None, "ok")
    /\ UNCHANGED <<models, key_order, audit_log, clock, ops>>

get_audit_log ==
    /\ response' = audit_log
    /\ last' = Call("get_audit_log", None, 0, None, "ok")
    /\ UNCHANGED <<models, key_order, audit_log, clock, ops>>

(***************************************************************************)
(* Texts.  A text is a sequence of characters; a character is a one-letter *)
(* string, the accented letters being written i_acute / I_ACUTE; I_DOT is  *)
(* the dotted capital I (U+0130), whose lower case is two characters.      *)
(***************************************************************************)
UpperCase == <<"A", "B", "C", "D", "E", "F", "G", "H", "I", "J", "K", "L", "M",
               "N", "O", "P", "Q", "R", "S", "T", "U", "V", "W", "X", "Y", "Z",
               "I_ACUTE", "O_ACUTE">>

LowerCase == <<"a", "b", "c", "d", "e", "f", "g", "h", "i", "j", "k", "l", "m",
               "n", "o", "p", "q", "r", "s", "t", "u", "v", "w", "x", "y", "z",
               "i_acute", "o_acute">>

\* The lower case of one character, as a text.
LowerChar(c) ==
    IF \E i \in 1..Len(UpperCase) : UpperCase[i] = c
    THEN <<LowerCase[CHOOSE i \in 1..Len(UpperCase) : UpperCase[i] = c]>>
    ELSE IF c = "I_DOT" THEN <<"i", "dot_above">>
    ELSE <<c>>

\* str.lower()
RECURSIVE lower(_)
lower(text) ==
    IF text = <<>> THEN <<>> ELSE LowerChar(Head(text)) \o lower(Tail(text))

\* `word in text`
Contains(text, word) ==
    \E i \in 0..(Len(text) - Len(word)) : SubSeq(text, i + 1, i + Len(word)) = word

KwUrgente == <<"u", "r", "g", "e", "n", "t", "e">>
KwCritico == <<"c", "r", "i_acute", "t", "i", "c", "o">>
KwImportante == <<"i", "m", "p", "o", "r", "t", "a", "n", "t", "e">>
KwEmergencia == <<"e", "m", "e", "r", "g", "e", "n", "c", "i", "a">>
KwRevisar == <<"r", "e", "v", "i", "s", "a", "r">>
KwAtencion == <<"a", "t", "e", "n", "c", "i", "o_acute", "n">>

\* Sample inputs: "hola", "esto es urgente", "Revisar", "IMPORTANTE".
TxtHola == <<"h", "o", "l", "a">>
TxtEstoEsUrgente ==
    <<"e", "s", "t", "o", " ", "e", "s", " ">> \o KwUrgente
TxtRevisar == <<"R", "e", "v", "i", "s", "a", "r">>
TxtImportante == <<"I", "M", "P", "O", "R", "T", "A", "N", "T", "E">>

Texts == {TxtHola, TxtEstoEsUrgente, TxtRevisar, TxtImportante}

\* A PredictionInput, and an argument whose entrada is not a string (predict
\* and dummy_predict take any object).
Input(text) == [type |-> "str", entrada |-> text]
Malformed == [type |-> "NoneType", entrada |-> <<>>]
IsStr(input_data) == input_data.type = "str"

(***************************************************************************)
(* ModelService: the strategies and the confidence estimator.              *)
(***************************************************************************)
modelo_basico(entrada) ==
    IF Contains(lower(entrada), KwUrgente) \/ Contains(lower(entrada), KwCritico)
    THEN "alta"
    ELSE IF Contains(lower(entrada), KwImportante) THEN "media" ELSE "baja"

\* Variant: the medium-priority words are looked up first.
modelo_avanzado_media_first(entrada) ==
    IF \E w \in {KwImportante, KwRevisar, KwAtencion} :
           Contains(lower(entrada), w)
    THEN "media"
    ELSE IF \E w \in {KwEmergencia, KwUrgente, KwCritico} :
                Contains(lower(entrada), w)
         THEN "alta" ELSE "baja"

modelo_avanzado(entrada) ==
    IF \E w \in {KwEmergencia, KwUrgente, KwCritico} : Contains(lower(entrada), w)
    THEN "alta"
    ELSE IF \E w \in {KwImportante, KwRevisar, KwAtencion} :
                Contains(lower(entrada), w)
         THEN "media" ELSE "baja"

modelo_edge(entrada) ==
    IF Contains(lower(entrada), KwUrgente) \/ Contains(lower(entrada), KwCritico)
    THEN "alta"
    ELSE IF Contains(lower(entrada), KwImportante) THEN "media" ELSE "baja"

\* self.models[model_name](input_data)
Strategy(model_name, entrada) ==
    CASE model_name = "modelo_basico" -> modelo_basico(entrada)
      [] model_name = "modelo_avanzado" -> modelo_avanzado(entrada)
      [] model_name = "modelo_edge" -> modelo_edge(entrada)

\* Confidences are in hundredths: 0.6, 0.9, 0.75.
ConfShort == 60
ConfKeyword == 90
ConfDefault == 75
ShortLen == 5

calculate_confidence(entrada) ==
    IF Len(lower(entrada)) < ShortLen THEN ConfShort
    ELSE IF \E w \in {KwUrgente, KwCritico, KwImportante} :
                Contains(lower(entrada), w)
         THEN ConfKeyword ELSE ConfDefault

(***************************************************************************)
(* ModelService.predict and retrain_model.                                 *)
(***************************************************************************)
\* A value of a result that may be None: Null, or Num(x).
Null == <<>>
Num(x) == <<x>>

\* The history since_retrain after one more prediction has returned: Null
\* as long as no retrain was made.
OneMore(n) == IF n = Null THEN Null ELSE Num(n[1] + 1)

\* Variant: the fallback is another strategy.
ResolveToEdge(model_name) ==
    IF model_name \in Names THEN model_name ELSE "modelo_edge"

\* `if model_name not in self.models: model_name = "modelo_basico"`
Resolve(model_name) ==
    IF model_name \in Names THEN model_name ELSE "modelo_basico"

\* Variant: the per-strategy counter is left alone.
CountedTotalOnly(count, stats, model_name) ==
    [count |-> count + 1, stats |-> stats]

\* The counters after `self.prediction_count += 1; self.model_stats[..] += 1`.
Counted(count, stats, model_name) ==
    [count |-> count + 1,
     stats |-> [stats EXCEPT ![model_name] = @ + 1]]

predict(input_data, model_name) ==
    LET used == Resolve(model_name)
        c == Counted(prediction_count, model_stats, used)
    IN /\ prediction_count' = c.count
       /\ model_stats' = c.stats
       /\ IF IsStr(input_data)
          THEN \* start_time, end_time and the result's timestamp
               /\ clock' = clock + 3
               /\ confidence_history' =
                     Append(confidence_history,
                            calculate_confidence(input_data.entrada))
               /\ last' = Call("predict", model_name, 0, None, "ok")
               /\ response' =
                     [prediction |-> Strategy(used, input_data.entrada),
                      model_used |-> used,
                      confidence |-> calculate_confidence(input_data.entrada),
                      timestamp |-> clock + 2,
                      model_version |-> model_version]
               /\ since_retrain' = OneMore(since_retrain)
          ELSE \* input_data.entrada.lower() raises inside the strategy; the
               \* except clause logs and re-raises
               /\ clock' = clock + 1
               /\ confidence_history' = confidence_history
               /\ last' = Call("predict", model_name, 0, None, "AttributeError")
               /\ response' = None
               /\ since_retrain' = since_retrain
       /\ UNCHANGED <<last_retrain, model_version>>

\* Variant: a retrain on an empty history does nothing.
retrain_model_skipping_empty ==
    /\ since_retrain' = Num(0)
    /\ model_version' = IF confidence_history = <<>> THEN model_version
                        ELSE model_version + 1
    /\ last_retrain' = clock
    /\ clock' = clock + 1
    /\ confidence_history' = <<>>
    /\ last' = Call("retrain", None, 0, None, "ok")
    /\ UNCHANGED <<prediction_count, model_stats>>

\* Variant: the retrain also resets the prediction counters.
retrain_model_resetting_counters ==
    /\ since_retrain' = Num(0)
    /\ model_version' = model_version + 1
    /\ last_retrain' = clock
    /\ clock' = clock + 1
    /\ confidence_history' = <<>>
    /\ last' = Call("retrain", None, 0, None, "ok")
    /\ prediction_count' = 0
    /\ model_stats' = [m \in Names |-> 0]

\* Variant: the retrain keeps the confidence history.
retrain_model_keeping_history ==
    /\ since_retrain' = Num(0)
    /\ model_version' = model_version + 1
    /\ last_retrain' = clock
    /\ clock' = clock + 1
    /\ last' = Call("retrain", None, 0, None, "ok")
    /\ UNCHANGED <<prediction_count, model_stats, confidence_history>>

retrain_model ==
    /\ since_retrain' = Num(0)
    /\ model_version' = model_version + 1
    /\ last_retrain' = clock
    /\ clock' = clock + 1
    /\ confidence_history' = <<>>
    /\ last' = Call("retrain", None, 0, None, "ok")
    /\ UNCHANGED <<prediction_count, model_stats>>

(***************************************************************************)
(* ModelService.get_stats and should_trigger_retrain.                      *)
(***************************************************************************)

RECURSIVE SumSeq(_)
SumSeq(h) == IF h = <<>> THEN 0 ELSE Head(h) + SumSeq(Tail(h))

RECURSIVE MinSeq(_)
MinSeq(h) == IF Len(h) = 1 THEN h[1]
             ELSE IF Head(h) <= MinSeq(Tail(h)) THEN Head(h) ELSE MinSeq(Tail(h))

RECURSIVE MaxSeq(_)
MaxSeq(h) == IF Len(h) = 1 THEN h[1]
             ELSE IF Head(h) >= MaxSeq(Tail(h)) THEN Head(h) ELSE MaxSeq(Tail(h))

\* a / n rounded to the nearest integer, a tie to the even one (round()).
RoundDiv(a, n) ==
    LET q == a \div n
        r == a % n
    IN IF 2 * r < n THEN q
       ELSE IF 2 * r > n THEN q + 1
       ELSE IF q % 2 = 0 THEN q ELSE q + 1

\* round(sum / len, 4), in ten-thousandths (the history is in hundredths).
AvgConfidence(h) == RoundDiv(SumSeq(h) * 100, Len(h))

\* Variant: the smallest and largest of an empty history are 0.
ConfidenceMetricsDefaultZero(h) ==
    [count |-> Num(Len(h)),
     avg_confidence |-> IF h # <<>> THEN Num(AvgConfidence(h)) ELSE Null,
     min_confidence |-> IF h # <<>> THEN Num(MinSeq(h)) ELSE Num(0),
     max_confidence |-> IF h # <<>> THEN Num(MaxSeq(h)) ELSE Num(0)]

\* The "confidence_metrics" of get_stats.
ConfidenceMetrics(h) ==
    [count |-> Num(Len(h)),
     avg_confidence |-> IF h # <<>> THEN Num(AvgConfidence(h)) ELSE Null,
     min_confidence |-> IF h # <<>> THEN Num(MinSeq(h)) ELSE Null,
     max_confidence |-> IF h # <<>> THEN Num(MaxSeq(h)) ELSE Null]

get_stats ==
    /\ response' = [total_predictions |-> prediction_count,
                    model_usage |-> model_stats,
                    available_models |-> StrategyNames,
                    model_version |-> model_version,
                    last_retrain |-> last_retrain,
                    confidence_metrics |-> ConfidenceMetrics(confidence_history)]
    /\ last' = Call("get_stats", None, 0, None, "ok")
    /\ UNCHANGED svcvars
    /\ UNCHANGED clock

\* sum(history) / len(history) < threshold, threshold in hundredths.  The
\* quotient is compared exactly; for thresholds 0.6, 0.75 and 0.9 and up to
\* six samples the floating-point quotient of the code compares the same.
MeanBelow(h, threshold) == SumSeq(h) < threshold * Len(h)

\* A returned bool.
Bool(b) == IF b THEN "True" ELSE "False"

\* Variant: a trigger that is due is acted on at once.
should_trigger_retrain_retraining(threshold, min_samples) ==
    IF /\ Len(confidence_history) >= min_samples
       /\ Len(confidence_history) > 0
       /\ MeanBelow(confidence_history, threshold)
    THEN /\ response' = Bool(TRUE)
         /\ last' = Call("should_trigger_retrain", None, 0, None, "ok")
         /\ model_version' = model_version + 1
         /\ last_retrain' = clock
         /\ clock' = clock + 1
         /\ confidence_history' = <<>>
         /\ since_retrain' = Num(0)
         /\ UNCHANGED <<prediction_count, model_stats>>
    ELSE /\ IF Len(confidence_history) < min_samples
            THEN /\ response' = Bool(FALSE)
                 /\ last' = Call("should_trigger_retrain", None, 0, None, "ok")
            ELSE IF Len(confidence_history) = 0
                 THEN /\ response' = None
                      /\ last' = Call("should_trigger_retrain", None, 0, None,
                                      "ZeroDivisionError")
                 ELSE /\ response' = Bool(FALSE)
                      /\ last' = Call("should_trigger_retrain", None, 0, None,
                                      "ok")
         /\ UNCHANGED svcvars
         /\ UNCHANGED clock

should_trigger_retrain(threshold, min_samples) ==
    /\ IF Len(confidence_history) < min_samples
       THEN /\ response' = Bool(FALSE)
            /\ last' = Call("should_trigger_retrain", None, 0, None, "ok")
       ELSE IF Len(confidence_history) = 0
            THEN \* sum([]) / len([]) raises
                 /\ response' = None
                 /\ last' = Call("should_trigger_retrain", None, 0, None,
                                 "ZeroDivisionError")
            ELSE /\ response' = Bool(MeanBelow(confidence_history, threshold))
                 /\ last' = Call("should_trigger_retrain", None, 0, None, "ok")
    /\ UNCHANGED svcvars
    /\ UNCHANGED clock

(***************************************************************************)
(* Results kept by a caller in the same process.  get_stats builds a new   *)
(* dict whose "model_usage" is self.model_stats itself; list_models builds *)
(* a new list of the entry dicts of self.models themselves; get_audit_log  *)
(* returns self.audit_log itself.                                          *)
(***************************************************************************)
NoResult == [kind |-> "none", value |-> None]

\* The entry dict first seen as e, as it is in the model map ms: the same
\* object while its key has not been registered again (registered_at tells
\* the objects of one key apart).
SameEntry(e, ms) ==
    LET k == Key(e.name, e.version)
    IN IF ms[k].registered_at = e.registered_at THEN ms[k] ELSE e

\* The kept result h, read once the objects it shares are ms, stats and log.
Aliased(h, ms, stats, log) ==
    CASE h.kind = "stats" -> [h EXCEPT !.value.model_usage = stats]
      [] h.kind = "list" ->
           [h EXCEPT !.value = [i \in 1..Len(h.value) |->
                                   SameEntry(h.value[i], ms)]]
      [] h.kind = "log" -> [h EXCEPT !.value = log]
      [] OTHER -> h

(***************************************************************************)
(* Initial state: the module-level instances model_registry and            *)
(* model_service, as constructed at import.                                *)
(***************************************************************************)
Started ==
    /\ models = NewRegistry.models
    /\ key_order = NewRegistry.key_order
    /\ audit_log = NewRegistry.audit_log
    /\ clock = NewRegistry.clock
    /\ ops = [i \in 1..Len(NewRegistry.audit_log) |->
                [kind |-> "register", key |-> NewRegistry.audit_log[i].model]]
    /\ calls = 0
    /\ last = Call("init", None, 0, None, "ok")
    /\ response = None
    /\ prediction_count = 0
    /\ model_stats = [m \in Names |-> 0]
    /\ confidence_history = <<>>
    /\ last_retrain = None
    /\ model_version = 1
    /\ held = NoResult
    /\ since_retrain = Null

Init == Started /\ requests = <<>>

(***************************************************************************)
(* Sequential use of the registry.                                         *)
(***************************************************************************)
RegistryCall(A) ==
    /\ calls < MaxCalls
    /\ calls' = calls + 1
    /\ A
    /\ UNCHANGED svcvars
    /\ UNCHANGED <<requests, held>>

Register == \E n \in Names, v \in Versions, s \in States :
                RegistryCall(register_model(n, v, s))

Promote == \E n \in Names, v \in Versions : RegistryCall(promote_model(n, v))

Archive == \E n \in Names, v \in Versions : RegistryCall(archive_model(n, v))

ListModels == RegistryCall(list_models)

GetAuditLog == RegistryCall(get_audit_log)

Next == Register \/ Promote \/ Archive \/ ListModels \/ GetAuditLog

Spec == Init /\ [][Next]_vars

\* Runs that only promote, from the registry as constructed at startup.
PromoteOnly ==
    /\ calls < MaxPromotes
    /\ calls' = calls + 1
    /\ \E n \in Names, v \in Versions : promote_model(n, v)
    /\ UNCHANGED svcvars
    /\ UNCHANGED <<requests, held>>

SpecPromote == Init /\ [][PromoteOnly]_vars

(***************************************************************************)
(* Sequential use of the service: predict and retrain_model called         *)
(* directly, with any argument.                                            *)
(***************************************************************************)
ModelArgs == Names \cup {"modelo_desconocido"}

ServiceCall(A) ==
    /\ calls < MaxServiceCalls
    /\ calls' = calls + 1
    /\ A
    /\ UNCHANGED <<models, key_order, audit_log, ops, requests, held>>

Predict == \E t \in Texts, m \in ModelArgs : ServiceCall(predict(Input(t), m))

PredictMalformed == \E m \in ModelArgs : ServiceCall(predict(Malformed, m))

Retrain == ServiceCall(retrain_model /\ response' = None)

\* Arguments of should_trigger_retrain: 0.6 and the default 0.75; 0, 1, 2 and
\* the default 10.
DefaultThreshold == 75
DefaultMinSamples == 10
Thresholds == {ConfShort, DefaultThreshold}
MinSamples == {0, 1, 2, DefaultMinSamples}

GetStats == ServiceCall(get_stats)

ShouldTriggerRetrain ==
    \E th \in Thresholds, ms \in MinSamples :
        ServiceCall(should_trigger_retrain(th, ms))

NextService ==
    Predict \/ PredictMalformed \/ Retrain \/ GetStats \/ ShouldTriggerRetrain

SpecService == Init /\ [][NextService]_vars

(***************************************************************************)
(* Concurrent requests.  Every endpoint is an `async def` without an await *)
(* in its body, so the event loop runs each handler to completion; the     *)
(* requests interleave at the framework's steps around it: reading and     *)
(* validating the body, running the handler, sending the response.         *)
(***************************************************************************)
PredictIds == 1..NumPredicts
RetrainIds == (NumPredicts + 1)..(NumPredicts + NumRetrains)
RequestIds == PredictIds \cup RetrainIds

\* The bodies the concurrent requests carry: "hola", "esto es urgente".
RequestTexts == {TxtHola, TxtEstoEsUrgente}

Pending(kind) == [kind |-> kind, pc |-> "pending", input |-> Malformed,
                  modelo |-> None, status |-> 0]

InitRequests ==
    [r \in RequestIds |-> IF r \in PredictIds THEN Pending("predict")
                          ELSE Pending("retrain")]

\* FastAPI builds the PredictionInput: entrada must be a string, modelo one
\* of the ModelType values; anything else is answered 422 without the handler.
AcceptPredict(r) ==
    /\ requests[r].kind = "predict" /\ requests[r].pc = "pending"
    /\ \E t \in RequestTexts, m \in Names :
          requests' = [requests EXCEPT ![r].pc = "ready",
                                       ![r].input = Input(t),
                                       ![r].modelo = m]
    /\ UNCHANGED <<models, key_order, audit_log, ops, clock, calls, last,
                   response, held>>
    /\ UNCHANGED svcvars

RejectPredict(r) ==
    /\ requests[r].kind = "predict" /\ requests[r].pc = "pending"
    /\ requests' = [requests EXCEPT ![r].pc = "done", ![r].status = 422]
    /\ UNCHANGED <<models, key_order, audit_log, ops, clock, calls, last,
                   response, held>>
    /\ UNCHANGED svcvars

AcceptRetrain(r) ==
    /\ requests[r].kind = "retrain" /\ requests[r].pc = "pending"
    /\ requests' = [requests EXCEPT ![r].pc = "ready"]
    /\ UNCHANGED <<models, key_order, audit_log, ops, clock, calls, last,
                   response, held>>
    /\ UNCHANGED svcvars

\* async def predict(...): result = model_service.predict(input_data,
\* input_data.modelo.value); any exception becomes a 500.
HandlePredict(r) ==
    /\ requests[r].kind = "predict" /\ requests[r].pc = "ready"
    /\ predict(requests[r].input, requests[r].modelo)
    /\ calls' = calls + 1
    /\ requests' = [requests EXCEPT
                       ![r].pc = "handled",
                       ![r].status = IF last'.outcome = "ok" THEN 200 ELSE 500]
    /\ UNCHANGED <<models, key_order, audit_log, ops, held>>

\* async def retrain_model(): model_service.retrain_model(), then the
\* response reads model_service.model_version.
HandleRetrain(r) ==
    /\ requests[r].kind = "retrain" /\ requests[r].pc = "ready"
    /\ retrain_model /\ response' = [new_version |-> model_version']
    /\ calls' = calls + 1
    /\ requests' = [requests EXCEPT
                       ![r].pc = "handled",
                       ![r].status = 200]
    /\ UNCHANGED <<models, key_order, audit_log, ops, held>>

Send(r) ==
    /\ requests[r].pc = "handled"
    /\ requests' = [requests EXCEPT ![r].pc = "done"]
    /\ UNCHANGED <<models, key_order, audit_log, ops, clock, calls, last,
                   response, held>>
    /\ UNCHANGED svcvars

NextConcurrent ==
    \E r \in RequestIds :
        \/ AcceptPredict(r)
        \/ RejectPredict(r)
        \/ AcceptRetrain(r)
        \/ HandlePredict(r)
        \/ HandleRetrain(r)
        \/ Send(r)

InitConcurrent == Started /\ requests = InitRequests

SpecConcurrent == InitConcurrent /\ [][NextConcurrent]_vars

(***************************************************************************)
(* Concurrent use of the registry.  POST /promote, POST /archive and       *)
(* GET /registry are `async def` handlers without an await, and            *)
(* register_model is a plain method called on the same loop, so each call  *)
(* runs to completion and the calls interleave only between them.          *)
(***************************************************************************)
RegistryRequestIds == 1..NumRegistryRequests

RegistryKinds == {"promote", "archive", "register", "list"}

InitRegistryRequests ==
    [r \in RegistryRequestIds |->
        [kind |-> None, pc |-> "pending", name |-> None, version |-> 0,
         state |-> None, status |-> 0]]

\* The query parameters name: str and version: int are read; register takes
\* its arguments, the state among them, from its caller.
AcceptRegistry(r) ==
    /\ requests[r].pc = "pending"
    /\ \/ \E k \in {"promote", "archive"}, n \in Names, v \in Versions :
             requests' = [requests EXCEPT ![r].pc = "ready", ![r].kind = k,
                                          ![r].name = n, ![r].version = v]
       \/ \E n \in Names, v \in Versions, st \in States :
             requests' = [requests EXCEPT ![r].pc = "ready",
                                          ![r].kind = "register",
                                          ![r].name = n, ![r].version = v,
                                          ![r].state = st]
       \/ requests' = [requests EXCEPT ![r].pc = "ready", ![r].kind = "list"]
    /\ UNCHANGED <<models, key_order, audit_log, ops, clock, calls, last,
                   response, held>>
    /\ UNCHANGED svcvars

\* The handler has run: 200, or the 400 the endpoint makes of an exception.
Answer(r) ==
    /\ calls' = calls + 1
    /\ requests' = [requests EXCEPT
                       ![r].pc = "handled",
                       ![r].status = IF last'.outcome = "ok" THEN 200 ELSE 400]
    /\ UNCHANGED svcvars
    /\ UNCHANGED held

HandlePromote(r) ==
    /\ requests[r].pc = "ready" /\ requests[r].kind = "promote"
    /\ promote_model(requests[r].name, requests[r].version)
    /\ Answer(r)

HandleArchive(r) ==
    /\ requests[r].pc = "ready" /\ requests[r].kind = "archive"
    /\ archive_model(requests[r].name, requests[r].version)
    /\ Answer(r)

HandleRegister(r) ==
    /\ requests[r].pc = "ready" /\ requests[r].kind = "register"
    /\ register_model(requests[r].name, requests[r].version, requests[r].state)
    /\ Answer(r)

HandleList(r) ==
    /\ requests[r].pc = "ready" /\ requests[r].kind = "list"
    /\ list_models
    /\ Answer(r)

NextRegistryConcurrent ==
    \E r \in RegistryRequestIds :
        \/ AcceptRegistry(r)
        \/ HandlePromote(r)
        \/ HandleArchive(r)
        \/ HandleRegister(r)
        \/ HandleList(r)
        \/ Send(r)

InitRegistryConcurrent == Started /\ requests = InitRegistryRequests

SpecRegistryConcurrent ==
    InitRegistryConcurrent /\ [][NextRegistryConcurrent]_vars

(***************************************************************************)
(* Calls made by code in the process that keeps the result of its last     *)
(* read and may write to it.                                               *)
(***************************************************************************)
CallerCall(A) ==
    /\ calls < MaxCallerCalls
    /\ calls' = calls + 1
    /\ A
    /\ UNCHANGED requests

\* A call on the registry; the kept result follows the objects it shares.
OnRegistry(A) ==
    CallerCall(/\ A
               /\ UNCHANGED svcvars
               /\ held' = Aliased(held, models', model_stats', audit_log'))

\* A call on the service.
OnService(A) ==
    CallerCall(/\ A
               /\ UNCHANGED <<models, key_order, audit_log, ops>>
               /\ held' = Aliased(held, models', model_stats', audit_log'))

\* The caller's registry calls are on the versions of one name.
CallerNames == {"modelo_basico"}

CallerRegister ==
    \E n \in CallerNames, v \in Versions, s \in States :
        OnRegistry(register_model(n, v, s))

CallerPromote ==
    \E n \in CallerNames, v \in Versions : OnRegistry(promote_model(n, v))

CallerArchive ==
    \E n \in CallerNames, v \in Versions : OnRegistry(archive_model(n, v))

CallerPredict ==
    \E t \in RequestTexts, m \in Names : OnService(predict(Input(t), m))

CallerRetrain == OnService(retrain_model /\ response' = None)

\* should_trigger_retrain as GET /metrics calls it, and with min_samples 1.
CallerShouldTriggerRetrain ==
    \E ms \in {1, DefaultMinSamples} :
        OnService(should_trigger_retrain(DefaultThreshold, ms))

\* The reads whose result the caller keeps.
CallerGetStats ==
    CallerCall(/\ get_stats
               /\ UNCHANGED <<models, key_order, audit_log, ops>>
               /\ held' = [kind |-> "stats", value |-> response'])

CallerListModels ==
    CallerCall(/\ list_models
               /\ UNCHANGED svcvars
               /\ held' = [kind |-> "list", value |-> response'])

CallerGetAuditLog ==
    CallerCall(/\ get_audit_log
               /\ UNCHANGED svcvars
               /\ held' = [kind |-> "log", value |-> response'])

\* The caller writes to the result it keeps: stats["model_usage"][m] = 0,
\* entries[i]["state"] = "archived", log.clear().
Edited ==
    /\ last' = Call("edit_result", None, 0, None, "ok")
    /\ response' = None
    /\ UNCHANGED <<key_order, ops, clock, prediction_count,
                   confidence_history, last_retrain, model_version,
                   since_retrain>>

EditModelUsage ==
    /\ held.kind = "stats"
    /\ \E m \in Names :
          CallerCall(/\ model_stats' = [model_stats EXCEPT ![m] = 0]
                     /\ held' = Aliased(held, models, model_stats', audit_log)
                     /\ Edited
                     /\ UNCHANGED <<models, audit_log>>)

EditEntry ==
    /\ held.kind = "list"
    /\ \E i \in 1..Len(held.value) :
          LET e == held.value[i]
              k == Key(e.name, e.version)
              edited == [e EXCEPT !.state = "archived"]
          IN CallerCall(/\ held' = [held EXCEPT !.value[i] = edited]
                        /\ models' = IF SameEntry(e, models) = models[k]
                                      THEN [models EXCEPT ![k] = edited]
                                      ELSE models
                        /\ Edited
                        /\ UNCHANGED <<model_stats, audit_log>>)

EditLog ==
    /\ held.kind = "log"
    /\ CallerCall(/\ audit_log' = <<>>
                  /\ held' = Aliased(held, models, model_stats, audit_log')
                  /\ Edited
                  /\ UNCHANGED <<models, model_stats>>)

NextCallers ==
    \/ CallerRegister \/ CallerPromote \/ CallerArchive
    \/ CallerPredict \/ CallerRetrain
    \/ CallerShouldTriggerRetrain \/ CallerGetStats
    \/ CallerListModels \/ CallerGetAuditLog
    \/ EditModelUsage \/ EditEntry \/ EditLog

SpecCallers == Init /\ [][NextCallers]_vars

(***************************************************************************)
(* One prediction on a drawn input: the strategies and the confidence      *)
(* estimator as functions of the text.  The request is already validated   *)
(* (non-empty, stripped, without < > & " '), and is handled once.          *)
(***************************************************************************)
\* The texts of at most MaxTextLen characters over "a" and the dotted
\* capital I.
ShortAlphabet == {"a", "I_DOT"}

ShortTexts == UNION {[1..n -> ShortAlphabet] : n \in 1..MaxTextLen}

\* The upper case of a letter of a keyword.
UpperOf(c) ==
    IF \E i \in 1..Len(LowerCase) : LowerCase[i] = c
    THEN UpperCase[CHOOSE i \in 1..Len(LowerCase) : LowerCase[i] = c]
    ELSE c

\* A keyword written in every mix of upper and lower case.
CaseVariants(word) ==
    {[i \in 1..Len(word) |-> IF i \in S THEN UpperOf(word[i]) ELSE word[i]] :
        S \in SUBSET (1..Len(word))}

\* What stands before and after the keyword: nothing, a dotted capital I
\* and a space; nothing, " importante", " REVISAR".
Prefixes == {<<>>, <<"I_DOT", " ">>}

Suffixes == {<<>>, <<" ">> \o KwImportante,
             <<" ", "R", "E", "V", "I", "S", "A", "R">>}

KeywordTexts ==
    {p \o w \o s : p \in Prefixes,
                    w \in CaseVariants(KwUrgente) \cup CaseVariants(KwCritico),
                    s \in Suffixes}

EstimatorTexts == ShortTexts \cup Texts \cup KeywordTexts

InitEstimator ==
    /\ Started
    /\ \E t \in EstimatorTexts, m \in Names :
          requests = <<[kind |-> "predict", pc |-> "ready", input |-> Input(t),
                        modelo |-> m, status |-> 0]>>

NextEstimator == \E r \in DOMAIN requests : HandlePredict(r)

SpecEstimator == InitEstimator /\ [][NextEstimator]_vars

(***************************************************************************)
(* Properties of the registry.                                             *)
(***************************************************************************)
IsPrefix(s, t) == Len(s) <= Len(t) /\ \A i \in 1..Len(s) : s[i] = t[i]

ActiveKeys(name) ==
    {k \in DOMAIN models : models[k].name = name /\ models[k].state = "active"}

\* The call just made (in the step from the unprimed to the primed state).
Called(op) == calls' = calls + 1 /\ last'.op = op

CalledKey == Key(last'.name, last'.version)

\* C1: from the registry as constructed at startup, after any sequence of
\* promote calls (successful or failing), at most one entry per name is
\* active.
C1_AtMostOneActiveAfterPromotes ==
    \A k1 \in DOMAIN models, k2 \in DOMAIN models :
        (/\ models[k1].name = models[k2].name
         /\ models[k1].state = "active"
         /\ models[k2].state = "active") => k1 = k2

C1_Witness ==
    /\ calls = MaxPromotes
    /\ last.op = "promote" /\ last.outcome = "ValueError"
    /\ models["modelo_avanzado_v1"].state = "active"
    /\ models["modelo_basico_v1"].state = "active"
    /\ Len(audit_log) > Len(StrategyNames)

\* C2: in every reachable state of the registry, under any sequence of
\* register (with any initial state), promote and archive calls, at most one
\* entry per distinct name is in state active.
C2_AtMostOneActiveAlways ==
    \A n \in Names : Cardinality(ActiveKeys(n)) <= 1

\* C3: promote or archive on a key that is not in the registry signals the
\* not-found error and leaves the model map and the audit log as they were.
C3_NotFoundLeavesRegistryUnchanged ==
    [][((Called("promote") \/ Called("archive"))
          /\ CalledKey \notin DOMAIN models)
        => (/\ last'.outcome = "ValueError"
            /\ models' = models
            /\ key_order' = key_order
            /\ audit_log' = audit_log)]_vars

C3_Witness ==
    /\ last.op = "archive" /\ last.outcome = "ValueError"
    /\ Key(last.name, last.version) \notin DOMAIN models
    /\ Len(audit_log) > Len(StrategyNames)

\* C4: after N successful registry operations (the startup registrations
\* included) the audit log holds exactly N events, the i-th carrying the
\* kind and the key of the i-th operation; a promote appends one event
\* however many siblings it demotes.
C4_AuditLogMatchesOperations ==
    /\ Len(audit_log) = Len(ops)
    /\ \A i \in 1..Len(ops) :
          /\ audit_log[i].event = ops[i].kind
          /\ audit_log[i].model = ops[i].key

C4_Witness ==
    /\ Len(audit_log) = Len(StrategyNames) + 2
    /\ audit_log[Len(audit_log)].event = "promote"
    /\ audit_log[Len(audit_log)].model = "modelo_basico_v2"
    /\ models["modelo_basico_v1"].state = "archived"

\* C5: the audit log is append-only: across every registry operation the
\* log before is a prefix of the log after.
C5_AuditLogAppendOnly ==
    [][IsPrefix(audit_log, audit_log')]_vars

C5_Witness ==
    /\ last.op = "get_audit_log"
    /\ Len(audit_log) > Len(StrategyNames)
    /\ response = audit_log

\* C6: register on a key that already exists fails with a duplicate error,
\* and the existing entry and the audit log are left unchanged.
C6_DuplicateRegisterFails ==
    [][(Called("register") /\ CalledKey \in DOMAIN models)
        => (/\ last'.outcome = "DuplicateError"
            /\ models' = models
            /\ audit_log' = audit_log)]_vars

\* C7: a successful promote leaves the target active, archives every other
\* entry of the name that was active, and leaves every other entry as it was.
C7_PromoteFrame ==
    [][(Called("promote") /\ last'.outcome = "ok")
        => (/\ DOMAIN models' = DOMAIN models
            /\ CalledKey \in DOMAIN models
            /\ \A k \in DOMAIN models :
                 /\ models'[k].name = models[k].name
                 /\ models'[k].version = models[k].version
                 /\ models'[k].registered_at = models[k].registered_at
                 /\ k = CalledKey => models'[k].state = "active"
                 /\ (k # CalledKey /\ models[k].name = last'.name
                       /\ models[k].state = "active")
                      => models'[k].state = "archived"
                 /\ (k # CalledKey /\ models[k].name = last'.name
                       /\ models[k].state # "active")
                      => models'[k].state = models[k].state
                 /\ models[k].name # last'.name => models'[k] = models[k])]_vars

C7_Witness ==
    /\ last = Call("promote", "modelo_basico", 2, None, "ok")
    /\ models["modelo_basico_v2"].state = "active"
    /\ models["modelo_basico_v1"].state = "archived"
    /\ models["modelo_avanzado_v1"].state = "staging"

\* C8: archive on an existing key sets that entry to archived from any prior
\* state and changes no other entry; a second archive in a row leaves the
\* model map as the first left it, and each call appends one archive event.
C8_ArchiveIdempotentOnState ==
    [][(Called("archive") /\ CalledKey \in DOMAIN models)
        => (/\ last'.outcome = "ok"
            /\ DOMAIN models' = DOMAIN models
            /\ models'[CalledKey].state = "archived"
            /\ models'[CalledKey].name = models[CalledKey].name
            /\ models'[CalledKey].version = models[CalledKey].version
            /\ models'[CalledKey].registered_at = models[CalledKey].registered_at
            /\ \A k \in DOMAIN models \ {CalledKey} : models'[k] = models[k]
            /\ Len(audit_log') = Len(audit_log) + 1
            /\ audit_log'[Len(audit_log')].event = "archive"
            /\ audit_log'[Len(audit_log')].model = CalledKey
            /\ (last.op = "archive" /\ last.outcome = "ok"
                  /\ Key(last.name, last.version) = CalledKey)
                 => models' = models)]_vars

C8_Witness ==
    /\ last = Call("archive", "modelo_basico", 1, None, "ok")
    /\ Len(audit_log) = Len(StrategyNames) + 2
    /\ audit_log[Len(audit_log)].event = "archive"
    /\ audit_log[Len(audit_log) - 1].event = "archive"
    /\ audit_log[Len(audit_log) - 1].model = audit_log[Len(audit_log)].model
    /\ models["modelo_basico_v1"].state = "archived"

(***************************************************************************)
(* Properties of the service.                                              *)
(***************************************************************************)
RECURSIVE SumStats(_, _)
SumStats(stats, i) ==
    IF i > Len(StrategyNames) THEN 0
    ELSE stats[StrategyNames[i]] + SumStats(stats, i + 1)

\* The requests of a kind whose handler has run.
Handled(kind) ==
    {r \in RequestIds : /\ requests[r].kind = kind
                        /\ requests[r].pc \in {"handled", "done"}
                        /\ requests[r].status # 422}

AllDone == \A r \in RequestIds : requests[r].pc = "done"

\* C9: if a predict call fails, the shared metrics are not partially
\* updated: totalPredictions, every per-strategy counter and the confidence
\* history are exactly as before the call.
C9_FailedPredictLeavesMetrics ==
    [][(Called("predict") /\ last'.outcome # "ok")
        => (/\ prediction_count' = prediction_count
            /\ model_stats' = model_stats
            /\ confidence_history' = confidence_history)]_vars

\* C10: when predict and retrain requests run concurrently, no update is
\* lost: at every moment, and so once all have completed, totalPredictions
\* and the sum of the per-strategy counters equal the number of predict
\* calls made, and modelVersion is 1 plus the number of retrain calls made.
C10_NoLostUpdate ==
    /\ prediction_count = Cardinality(Handled("predict"))
    /\ SumStats(model_stats, 1) = Cardinality(Handled("predict"))
    /\ model_version = 1 + Cardinality(Handled("retrain"))

C10_Witness ==
    /\ AllDone
    /\ Cardinality(Handled("predict")) = NumPredicts
    /\ Cardinality(Handled("retrain")) = NumRetrains
    /\ prediction_count = NumPredicts
    /\ model_version = 1 + NumRetrains
    /\ Len(confidence_history) = 1
    /\ model_stats["modelo_edge"] = 1

\* C12: predict with a strategy name that is not registered succeeds, is
\* evaluated by modelo_basico, reports modelo_basico as the strategy used and
\* increments the modelo_basico counter.
C12_UnknownStrategyFallsBack ==
    [][\A t \in Texts, m \in ModelArgs \ Names :
          (Called("predict") /\ predict(Input(t), m))
          => (/\ last'.outcome = "ok"
              /\ response'.model_used = "modelo_basico"
              /\ response'.prediction = modelo_basico(t)
              /\ DOMAIN model_stats' = Names
              /\ \A n \in Names :
                    model_stats'[n] = model_stats[n]
                        + (IF n = "modelo_basico" THEN 1 ELSE 0))]_vars

C12_Witness ==
    /\ last.op = "predict" /\ last.outcome = "ok"
    /\ last.name \notin Names
    /\ response.model_used = "modelo_basico"
    /\ response.prediction = "baja"
    /\ response.confidence = ConfDefault
    /\ model_stats["modelo_basico"] = prediction_count
    /\ prediction_count > 0

\* C13: for every history, threshold and minSamples >= 0,
\* shouldTriggerRetrain returns false when the history is shorter than
\* minSamples, and otherwise true exactly when the mean of the history is
\* strictly below the threshold.
C13_RetrainTriggerIsMeanBelowThreshold ==
    [][\A th \in Thresholds, ms \in MinSamples :
          (Called("should_trigger_retrain") /\ should_trigger_retrain(th, ms))
          => (/\ last'.outcome = "ok"
              /\ Len(confidence_history) < ms => response' = "False"
              /\ Len(confidence_history) >= ms
                   => (response' = "True"
                         <=> SumSeq(confidence_history)
                               < th * Len(confidence_history)))]_vars

\* C14: every retrain, a redundant one included, leaves the history empty
\* and modelVersion one greater; nothing else changes modelVersion, which
\* starts at 1, so it is 1 plus the number of retrains made.
C14_RetrainAdvancesVersion ==
    [][/\ calls = 0 => model_version = 1
       /\ Called("retrain")
            => (model_version' = model_version + 1 /\ confidence_history' = <<>>)
       /\ ~Called("retrain") => model_version' = model_version]_vars

C14_Witness ==
    /\ last.op = "retrain"
    /\ calls = 2
    /\ model_version = 3
    /\ confidence_history = <<>>
    /\ prediction_count = 0

\* C17 as stated: with an empty history every field of the confidence
\* summary (count, average, min, max) is null; otherwise count is the length
\* of the history and min and max its smallest and largest values.
C17_EmptySummaryAllNull ==
    last.op = "get_stats" =>
        LET cm == response.confidence_metrics
            h == confidence_history
        IN /\ h = <<>> => (/\ cm.count = Null
                           /\ cm.avg_confidence = Null
                           /\ cm.min_confidence = Null
                           /\ cm.max_confidence = Null)
           /\ h # <<>> => (/\ cm.count = Num(Len(h))
                           /\ \E i \in 1..Len(h) : cm.min_confidence = Num(h[i])
                           /\ \E i \in 1..Len(h) : cm.max_confidence = Num(h[i])
                           /\ \A i \in 1..Len(h) :
                                 /\ cm.min_confidence[1] <= h[i]
                                 /\ cm.max_confidence[1] >= h[i])

\* C17 amended: with an empty history the average, min and max are null and
\* count is 0; otherwise count is the length of the history and min and max
\* its smallest and largest values.
C17_EmptySummaryNullButCount ==
    last.op = "get_stats" =>
        LET cm == response.confidence_metrics
            h == confidence_history
        IN /\ cm.count = Num(Len(h))
           /\ h = <<>> => (/\ cm.avg_confidence = Null
                           /\ cm.min_confidence = Null
                           /\ cm.max_confidence = Null)
           /\ h # <<>> => (/\ \E i \in 1..Len(h) : cm.min_confidence = Num(h[i])
                           /\ \E i \in 1..Len(h) : cm.max_confidence = Num(h[i])
                           /\ \A i \in 1..Len(h) :
                                 /\ cm.min_confidence[1] <= h[i]
                                 /\ cm.max_confidence[1] >= h[i])

C17_Witness ==
    /\ last.op = "get_stats"
    /\ model_version = 2
    /\ prediction_count > 0
    /\ confidence_history = <<>>
    /\ response.confidence_metrics.count = Num(0)
    /\ response.confidence_metrics.min_confidence = Null

\* C20: in sequential use the total equals the sum of the per-strategy
\* counters; the history is empty at start, grows by one with every predict
\* that succeeds, is emptied by a retrain and left alone by the reads; a
\* retrain leaves the total and the per-strategy counters unchanged.
IsRead(op) == op \in {"get_stats", "should_trigger_retrain"}

C20_CountersAndHistoryConsistent ==
    [][/\ prediction_count = SumStats(model_stats, 1)
       /\ prediction_count' = SumStats(model_stats', 1)
       /\ calls = 0 => (prediction_count = 0 /\ confidence_history = <<>>)
       /\ (Called("predict") /\ last'.outcome = "ok")
            => (/\ Len(confidence_history') = Len(confidence_history) + 1
                /\ SubSeq(confidence_history', 1, Len(confidence_history))
                     = confidence_history
                /\ prediction_count' = prediction_count + 1)
       /\ Called("retrain")
            => (/\ confidence_history' = <<>>
                /\ prediction_count' = prediction_count
                /\ model_stats' = model_stats)
       /\ (calls' = calls + 1 /\ IsRead(last'.op))
            => (/\ confidence_history' = confidence_history
                /\ prediction_count' = prediction_count
                /\ model_stats' = model_stats)]_vars

C20_Witness ==
    /\ last.op = "predict" /\ last.outcome = "ok"
    /\ model_version = 2
    /\ prediction_count = 2
    /\ Len(confidence_history) = 1
    /\ model_stats["modelo_avanzado"] = 2


(***************************************************************************)
(* Properties of the strategies and the confidence estimator.              *)
(***************************************************************************)
\* The text holds the word in some mix of upper and lower case.
ContainsAnyCase(text, word) ==
    \E i \in 0..(Len(text) - Len(word)) :
        \A j \in 1..Len(word) : text[i + j] \in {word[j], UpperOf(word[j])}

\* The confidence of a text: 0.6 below five characters, otherwise 0.9 with
\* a keyword, otherwise 0.75.
StatedConfidence(text) ==
    IF Len(text) < ShortLen THEN ConfShort
    ELSE IF \E w \in {KwUrgente, KwCritico, KwImportante} :
                ContainsAnyCase(text, w)
         THEN ConfKeyword ELSE ConfDefault

\* The request answered by the prediction held in response.
Answered(r) == requests[r].pc = "handled" /\ requests[r].status = 200

\* C18: the confidence of a prediction is 0.6 for an input shorter than 5
\* characters, otherwise 0.9 when the input contains a keyword, otherwise
\* 0.75; predict("hola") has confidence 0.6, predict("esto es urgente") has
\* label alta and confidence 0.9, and every stored confidence is in [0,1].
C18_ConfidenceByLengthThenKeyword ==
    /\ \A i \in 1..Len(confidence_history) : confidence_history[i] \in 0..100
    /\ \A r \in DOMAIN requests :
          Answered(r) =>
             /\ response.confidence = StatedConfidence(requests[r].input.entrada)
             /\ requests[r].input.entrada = TxtHola
                   => response.confidence = ConfShort
             /\ requests[r].input.entrada = TxtEstoEsUrgente
                   => /\ response.prediction = "alta"
                      /\ response.confidence = ConfKeyword

\* C19: for every input that contains "urgente" or "critico" (accented) in
\* any letter case, each of the three strategies returns alta, also when
\* the input holds a medium-priority keyword as well.
C19_HighKeywordWins ==
    \A r \in DOMAIN requests :
        (/\ Answered(r)
         /\ \/ ContainsAnyCase(requests[r].input.entrada, KwUrgente)
            \/ ContainsAnyCase(requests[r].input.entrada, KwCritico))
        => /\ response.prediction = "alta"
           /\ response.model_used = requests[r].modelo

C19_Witness ==
    \E r \in DOMAIN requests :
        /\ Answered(r)
        /\ requests[r].modelo = "modelo_avanzado"
        /\ ContainsAnyCase(requests[r].input.entrada, KwCritico)
        /\ ~Contains(requests[r].input.entrada, KwCritico)
        /\ ContainsAnyCase(requests[r].input.entrada, KwRevisar)
        /\ response.prediction = "alta"


(***************************************************************************)
(* Properties of concurrent calls on the registry.                         *)
(***************************************************************************)
\* The names with two active entries in a list of entries.
DoublyActive(entries) ==
    {n \in Names :
        \E i \in 1..Len(entries), j \in 1..Len(entries) :
            /\ i # j
            /\ entries[i].name = n /\ entries[j].name = n
            /\ entries[i].state = "active" /\ entries[j].state = "active"}

\* C11: when promote, archive and register calls run concurrently, no list
\* a concurrent list_models returns and no final state has two active
\* entries of one name, and every call completes without an error other
\* than not-found.
C11_ConcurrentCallsKeepOneActive ==
    /\ (last.op = "list_models" /\ last.outcome = "ok")
          => DoublyActive(response) = {}
    /\ (\A r \in DOMAIN requests : requests[r].pc = "done")
          => \A n \in Names : Cardinality(ActiveKeys(n)) <= 1
    /\ last.outcome \in {None, "ok", "ValueError"}
    /\ \A r \in DOMAIN requests : requests[r].status \in {0, 200, 400}


(***************************************************************************)
(* Properties of the reads and of the results they return.                 *)
(***************************************************************************)
ReadOps == {"get_stats", "should_trigger_retrain", "list_models",
            "get_audit_log"}

MutatorOps == {"predict", "retrain", "register", "promote", "archive"}

\* C15: get_stats, should_trigger_retrain, list_models and get_audit_log
\* change no state (counters, confidence history, model version, time of the
\* last retrain, model map, audit log), so should_trigger_retrain never
\* retrains, and a get_stats or get_audit_log that follows the same read
\* with nothing in between returns the same result.
C15_ReadsChangeNoState ==
    [][(calls' = calls + 1 /\ last'.op \in ReadOps)
        => /\ UNCHANGED <<prediction_count, model_stats, confidence_history,
                          model_version, last_retrain, models, key_order,
                          audit_log>>
           /\ (last.op = last'.op /\ last'.op \in {"get_stats", "get_audit_log"})
                 => response' = response]_vars

C15_Witness ==
    /\ last.op = "should_trigger_retrain" /\ last.outcome = "ok"
    /\ response = Bool(TRUE)
    /\ confidence_history # <<>>
    /\ model_version = 1
    /\ last_retrain = None

\* C16: the results of get_stats, list_models and get_audit_log are
\* snapshots: a later predict, retrain, register, promote or archive does
\* not change a result returned earlier, and a caller that edits a result
\* changes neither the service's metrics nor the model map nor the audit
\* log.
C16_ResultsAreSnapshots ==
    [][/\ (calls' = calls + 1 /\ last'.op \in MutatorOps /\ held.kind # "none")
          => held' = held
       /\ Called("edit_result")
          => UNCHANGED <<prediction_count, model_stats, confidence_history,
                         models, key_order, audit_log>>]_vars


(***************************************************************************)
(* Properties of the confidence history across a retrain.                  *)
(***************************************************************************)
\* C21: the confidence history does not carry over a retrain: after a
\* retrain, should_trigger_retrain(threshold, min_samples) with
\* min_samples >= 1 returns false as long as fewer than min_samples
\* predictions have returned since, however low the confidences recorded
\* before the retrain were.
C21_NoTriggerUntilEnoughSamplesAfterRetrain ==
    [][\A th \in Thresholds, ms \in MinSamples \ {0} :
          (/\ Called("should_trigger_retrain")
           /\ should_trigger_retrain(th, ms)
           /\ since_retrain # Null
           /\ since_retrain[1] < ms)
          => (last'.outcome = "ok" /\ response' = Bool(FALSE))]_vars

\* One prediction was made before the retrain and one, of confidence 0.6,
\* has returned since; a trigger asked after it has answered false.
C21_Witness ==
    /\ last.op = "should_trigger_retrain" /\ last.outcome = "ok"
    /\ response = Bool(FALSE)
    /\ since_retrain = Num(1)
    /\ confidence_history = <<ConfShort>>
    /\ prediction_count = 2
    /\ model_version = 2

====
